---- MODULE Spec2Model ----
(***************************************************************************)
(* SentinelAI dashboard (src/src/App.jsx): the App component's state, the  *)
(* analyzeFile request life cycle, the lens filter getIssuesForFeature and *)
(* the keyword explainer explainIssue.                                     *)
(*                                                                         *)
(* A JavaScript string is a sequence of one-character strings, so that     *)
(* toLowerCase and includes are computed character by character.  A        *)
(* JavaScript value is a record [t, s, n]: its type tag, its text when it  *)
(* is a string and its value when it is a number.                          *)
(***************************************************************************)
EXTENDS Integers, Sequences, FiniteSets, TLC

VARIABLES
    file,           \* useState(null): the selected file, NoFile when falsy
    score,          \* useState(null): a JavaScript value
    issues,         \* useState([]): a sequence of JavaScript values
    activeFeature,  \* useState(null): the active lens, NoFeature when null
    loading,        \* useState(false)
    requests,       \* one record per analyzeFile call that reached fetch
    settled,        \* indices of requests in the order they left the try block
    notice,         \* text of the last alert() shown, NoNotice before any
    cFeature,       \* getIssuesForFeature call: the feature argument
    cIssues,        \* getIssuesForFeature call: the issues it closes over
    cScore,         \* getIssuesForFeature call: the score it closes over
    cResult,        \* getIssuesForFeature call: the returned array
    cDone,          \* getIssuesForFeature call: has returned
    eIssue,         \* explainIssue call: the issue argument
    eResult,        \* explainIssue call: the returned explanation
    eDone           \* explainIssue call: has returned

appVars == <<file, score, issues, activeFeature, loading, requests, settled, notice>>
classifyVars == <<cFeature, cIssues, cScore, cResult, cDone>>
explainVars == <<eIssue, eResult, eDone>>
vars == <<appVars, classifyVars, explainVars>>

----------------------------------------------------------------------------
(* Bounds *)

MaxIssues == 2      \* longest issues array drawn for getIssuesForFeature
MaxFrags == 2       \* most fragments concatenated into an explainIssue text
MaxRequests == 2    \* most analyzeFile submissions in one behaviour

----------------------------------------------------------------------------
(* JavaScript values *)

JSString(s) == [t |-> "string", s |-> s, n |-> 0]
JSNumber(n) == [t |-> "number", s |-> <<>>, n |-> n]
JSNull == [t |-> "null", s |-> <<>>, n |-> 0]
JSUndefined == [t |-> "undefined", s |-> <<>>, n |-> 0]

UpperChars ==
    <<"A", "B", "C", "D", "E", "F", "G", "H", "I", "J", "K", "L", "M",
      "N", "O", "P", "Q", "R", "S", "T", "U", "V", "W", "X", "Y", "Z">>
LowerChars ==
    <<"a", "b", "c", "d", "e", "f", "g", "h", "i", "j", "k", "l", "m",
      "n", "o", "p", "q", "r", "s", "t", "u", "v", "w", "x", "y", "z">>
DigitChars == <<"0", "1", "2", "3", "4", "5", "6", "7", "8", "9">>

\* String.prototype.toLowerCase on one character
toLowerCaseChar(c) ==
    IF \E k \in 1..26 : UpperChars[k] = c
    THEN LowerChars[CHOOSE k \in 1..26 : UpperChars[k] = c]
    ELSE c

\* String.prototype.toLowerCase
toLowerCase(s) == [k \in 1..Len(s) |-> toLowerCaseChar(s[k])]

\* String.prototype.includes
includes(s, w) ==
    \E k \in 0..(Len(s) - Len(w)) : SubSeq(s, k + 1, k + Len(w)) = w

\* ToNumber on the strings the model draws: decimal digits give their
\* value, the empty string gives 0, anything else gives NaN.
RECURSIVE DigitsValue(_)
DigitsValue(s) ==
    IF s = <<>> THEN 0
    ELSE 10 * DigitsValue(SubSeq(s, 1, Len(s) - 1))
         + (CHOOSE d \in 0..9 : DigitChars[d + 1] = s[Len(s)])

ToNumber(v) ==
    CASE v.t = "number" -> [nan |-> FALSE, n |-> v.n]
      [] v.t = "null" -> [nan |-> FALSE, n |-> 0]
      [] v.t = "undefined" -> [nan |-> TRUE, n |-> 0]
      [] v.t = "string" ->
            IF \A k \in 1..Len(v.s) : \E d \in 1..10 : DigitChars[d] = v.s[k]
            THEN [nan |-> FALSE, n |-> DigitsValue(v.s)]
            ELSE [nan |-> TRUE, n |-> 0]

\* the relational operator v <= n of JavaScript, n a number
LessOrEqual(v, n) == ~ToNumber(v).nan /\ ToNumber(v).n <= n

----------------------------------------------------------------------------
(* String literals of App.jsx *)

SecurityOverrideMsg ==
    <<"P", "o", "t", "e", "n", "t", "i", "a", "l", " ", "s", "e", "c", "u",
      "r", "i", "t", "y", " ", "v", "u", "l", "n", "e", "r", "a", "b", "i",
      "l", "i", "t", "y", " ", "d", "e", "t", "e", "c", "t", "e", "d", " ",
      "d", "u", "e", " ", "t", "o", " ", "u", "n", "s", "a", "f", "e", " ",
      "c", "o", "d", "i", "n", "g", " ", "p", "a", "t", "t", "e", "r", "n",
      "s">>
ComplexityFallbackMsg ==
    <<"H", "i", "g", "h", " ", "c", "y", "c", "l", "o", "m", "a", "t", "i",
      "c", " ", "c", "o", "m", "p", "l", "e", "x", "i", "t", "y", " ", "d",
      "e", "t", "e", "c", "t", "e", "d">>
DependencyMsg ==
    <<"U", "n", "u", "s", "e", "d", " ", "o", "r", " ", "r", "i", "s", "k",
      "y", " ", "d", "e", "p", "e", "n", "d", "e", "n", "c", "y", " ", "d",
      "e", "t", "e", "c", "t", "e", "d">>
RefactorMsg ==
    <<"C", "o", "d", "e", " ", "c", "a", "n", " ", "b", "e", " ", "r", "e",
      "f", "a", "c", "t", "o", "r", "e", "d", " ", "t", "o", " ", "i", "m",
      "p", "r", "o", "v", "e", " ", "r", "e", "a", "d", "a", "b", "i", "l",
      "i", "t", "y">>
KwSecret ==
    <<"s", "e", "c", "r", "e", "t">>
KwEval ==
    <<"e", "v", "a", "l">>
KwExec ==
    <<"e", "x", "e", "c">>
KwInsecure ==
    <<"i", "n", "s", "e", "c", "u", "r", "e">>
KwComplex ==
    <<"c", "o", "m", "p", "l", "e", "x">>
KwPassword ==
    <<"p", "a", "s", "s", "w", "o", "r", "d">>
KwToken ==
    <<"t", "o", "k", "e", "n">>
KwDependency ==
    <<"d", "e", "p", "e", "n", "d", "e", "n", "c", "y">>
KwRefactor ==
    <<"r", "e", "f", "a", "c", "t", "o", "r">>

SecurityThreshold == 35

----------------------------------------------------------------------------
(* getIssuesForFeature, lines 52-93.  A call either returns an array or    *)
(* throws a TypeError (calling toLowerCase on a value that has none).      *)

Returned(a) == [threw |-> FALSE, value |-> a]
Threw == [threw |-> TRUE, value |-> <<>>]

IsString(i) == i.t = "string"

\* line 55: issues.filter((i) => typeof i === "string")
safeIssuesUnfiltered(iss) == iss
safeIssues(iss) == SelectSeq(iss, IsString)

SecurityWords == {KwSecret, KwEval, KwExec, KwInsecure}

\* lines 67-70: the predicate of the security filter
IsSecurityIssue(i) == \E w \in SecurityWords : includes(toLowerCase(i.s), w)

\* lines 76-81: the predicate of the complexity some() and filter()
IsComplexityIssueCaseSensitive(i) == includes(i.s, KwComplex)
IsComplexityIssue(i) == includes(toLowerCase(i.s), KwComplex)

\* i.toLowerCase() throws for every element that is not a string
CallbackThrows(list) == \E k \in 1..Len(list) : ~IsString(list[k])

\* lines 58-71
securityCaseStrictlyBelow(iss, sc) ==
    IF sc # JSNull /\ ~ToNumber(sc).nan /\ ToNumber(sc).n < SecurityThreshold
    THEN Returned(<<JSString(SecurityOverrideMsg)>>)
    ELSE IF CallbackThrows(safeIssues(iss))
         THEN Threw
         ELSE Returned(SelectSeq(safeIssues(iss), IsSecurityIssue))

securityCase(iss, sc) ==
    IF sc # JSNull /\ LessOrEqual(sc, SecurityThreshold)
    THEN Returned(<<JSString(SecurityOverrideMsg)>>)
    ELSE IF CallbackThrows(safeIssues(iss))
         THEN Threw
         ELSE Returned(SelectSeq(safeIssues(iss), IsSecurityIssue))

\* lines 75-82
complexityCase(iss) ==
    IF CallbackThrows(safeIssues(iss))
    THEN Threw
    ELSE IF \E k \in 1..Len(safeIssues(iss)) : IsComplexityIssue(safeIssues(iss)[k])
         THEN Returned(SelectSeq(safeIssues(iss), IsComplexityIssue))
         ELSE Returned(<<JSString(ComplexityFallbackMsg)>>)

\* lines 84-85
dependencyCaseWrongMsg == Returned(<<JSString(RefactorMsg)>>)
dependencyCase == Returned(<<JSString(DependencyMsg)>>)

\* lines 87-88
refactorCase == Returned(<<JSString(RefactorMsg)>>)

\* lines 52-93; issues held by the component is always an array (line 41)
getIssuesForFeature(feature, iss, sc) ==
    IF Len(iss) = 0 THEN Returned(<<>>)
    ELSE CASE feature = "security" -> securityCase(iss, sc)
           [] feature = "complexity" -> complexityCase(iss)
           [] feature = "dependency" -> dependencyCase
           [] feature = "refactor" -> refactorCase
           [] OTHER -> Returned(<<>>)

----------------------------------------------------------------------------
(* explainIssue, lines 102-125 *)

ExplainExec == "This allows execution of arbitrary code and can be exploited by attackers."
ExplainSecret == "Hardcoded secrets can leak credentials and should be stored securely."
ExplainComplex == "High complexity makes code harder to understand, test, and maintain."
ExplainDependency == "Unused or risky dependencies increase attack surface and maintenance cost."
ExplainRefactor == "Refactoring improves readability and long-term maintainability."
ExplainGeneric == "This issue may negatively affect security or code quality."

explainIssueSecretFirst(issue) ==
    LET text == toLowerCase(issue.s) IN
    IF includes(text, KwSecret) \/ includes(text, KwPassword) \/ includes(text, KwToken)
    THEN ExplainSecret
    ELSE IF includes(text, KwEval) \/ includes(text, KwExec)
    THEN ExplainExec
    ELSE IF includes(text, KwComplex) THEN ExplainComplex
    ELSE IF includes(text, KwDependency) THEN ExplainDependency
    ELSE IF includes(text, KwRefactor) THEN ExplainRefactor
    ELSE ExplainGeneric

explainIssue(issue) ==
    LET text == toLowerCase(issue.s) IN
    IF includes(text, KwEval) \/ includes(text, KwExec)
    THEN ExplainExec
    ELSE IF includes(text, KwSecret) \/ includes(text, KwPassword) \/ includes(text, KwToken)
    THEN ExplainSecret
    ELSE IF includes(text, KwComplex) THEN ExplainComplex
    ELSE IF includes(text, KwDependency) THEN ExplainDependency
    ELSE IF includes(text, KwRefactor) THEN ExplainRefactor
    ELSE ExplainGeneric

----------------------------------------------------------------------------
(* Inputs drawn by the specifications *)

TxtEvalUsed ==
    <<"e", "v", "a", "l", "(", ")", " ", "u", "s", "e", "d">>
TxtHardcodedSecret ==
    <<"H", "a", "r", "d", "c", "o", "d", "e", "d", " ", "S", "E", "C", "R",
      "E", "T">>
TxtComplexLoop ==
    <<"C", "o", "m", "p", "l", "e", "x", " ", "l", "o", "o", "p", " ", "d",
      "e", "t", "e", "c", "t", "e", "d">>
TxtInsecureExec ==
    <<"I", "n", "s", "e", "c", "u", "r", "e", " ", "E", "X", "E", "C", " ",
      "c", "a", "l", "l">>
TxtUnrelated ==
    <<"u", "n", "r", "e", "l", "a", "t", "e", "d", " ", "n", "o", "t", "e">>
TxtHigh ==
    <<"h", "i", "g", "h">>
Fragments ==
    { <<"E", "v", "a", "l">>,
      <<"e", "x", "e", "c">>,
      <<"s", "e", "c", "r", "e", "t">>,
      <<"P", "A", "S", "S", "W", "O", "R", "D">>,
      <<"T", "o", "k", "e", "n">>,
      <<"C", "o", "m", "p", "l", "e", "x">>,
      <<"d", "e", "p", "e", "n", "d", "e", "n", "c", "y">>,
      <<"r", "e", "f", "a", "c", "t", "o", "r">>,
      <<"i", "n", "s", "e", "c", "u", "r", "e">>,
      <<"e", "v">>,
      <<"a", "l">>,
      <<" ", "l", "o", "o", "p">> }

Features == {"security", "complexity", "dependency", "refactor"}
FeatureArgs == Features \cup {"bogus-lens"}

Elements ==
    { JSString(TxtEvalUsed), JSString(TxtHardcodedSecret),
      JSString(TxtComplexLoop), JSString(TxtInsecureExec),
      JSString(TxtUnrelated), JSString(<<>>), JSNull, JSNumber(7) }

IssueArrays == UNION { [1..k -> Elements] : k \in 0..MaxIssues }

ScoreArgs == {JSNull} \cup { JSNumber(n) : n \in {-1, 0, 20, 34, 35, 36, 50, 100} }

RECURSIVE Flatten(_)
Flatten(fs) == IF fs = <<>> THEN <<>> ELSE Head(fs) \o Flatten(Tail(fs))

Texts == { Flatten(fs) : fs \in UNION { [1..k -> Fragments] : k \in 0..MaxFrags } }

\* data.issues of a response body: an array or something else
IssuesArray(a) == [t |-> "array", a |-> a]
IssuesMissing == [t |-> "undefined", a |-> <<>>]
IssuesText == [t |-> "string", a |-> <<>>]

\* The value res.json() resolves to: the JSON null or an object
JsonNull == [kind |-> "null", score |-> JSUndefined, issues |-> IssuesMissing]
JsonObject(sc, iss) == [kind |-> "object", score |-> sc, issues |-> iss]

Bodies ==
    { JsonObject(JSNumber(20), IssuesArray(<<JSString(TxtEvalUsed), JSNull>>)),
      JsonObject(JSNumber(90), IssuesArray(<<JSString(TxtComplexLoop)>>)),
      JsonObject(JSUndefined, IssuesArray(<<>>)),
      JsonObject(JSString(TxtHigh), IssuesText),
      JsonNull }

Files == {"main.py"}
NoFile == "null"
NoFeature == "null"
NoNotice == "none"
SelectAlert == "Please select a Python file first"
BackendAlert == "Backend not reachable. Ensure FastAPI is running on port 8000."
NoData == [kind |-> "none", score |-> JSUndefined, issues |-> IssuesMissing]

----------------------------------------------------------------------------
(* The App component *)

\* lines 5-9
AppInit ==
    /\ file = NoFile
    /\ score = JSNull
    /\ issues = <<>>
    /\ activeFeature = NoFeature
    /\ loading = FALSE
    /\ requests = <<>>
    /\ settled = <<>>
    /\ notice = NoNotice

ClassifyIdle ==
    /\ cFeature = "security"
    /\ cIssues = <<>>
    /\ cScore = JSNull
    /\ cResult = Returned(<<>>)
    /\ cDone = FALSE

ExplainIdle ==
    /\ eIssue = JSString(<<>>)
    /\ eResult = ""
    /\ eDone = FALSE

InFlight == { i \in 1..Len(requests) : requests[i].status \in {"fetch", "json"} }

\* line 156: onChange={(e) => setFile(e.target.files[0])}
setFile(f) ==
    /\ file' = f
    /\ UNCHANGED <<score, issues, activeFeature, loading, requests, settled, notice>>

\* lines 204, 210, 216, 222
setActiveFeature(f) ==
    /\ activeFeature' = f
    /\ UNCHANGED <<file, score, issues, loading, requests, settled, notice>>

\* lines 20-23
analyzeFileNoFile ==
    /\ file = NoFile
    /\ notice' = SelectAlert
    /\ UNCHANGED <<file, score, issues, activeFeature, loading, requests, settled>>

\* lines 20-37: up to the suspension at await fetch(...)
analyzeFileSubmitKeepScore ==
    /\ file # NoFile
    /\ Len(requests) < MaxRequests
    /\ loading' = TRUE
    /\ issues' = <<>>
    /\ activeFeature' = NoFeature
    /\ requests' = Append(requests, [status |-> "fetch", file |-> file, data |-> NoData])
    /\ UNCHANGED <<file, score, settled, notice>>

analyzeFileSubmit ==
    /\ file # NoFile
    /\ Len(requests) < MaxRequests
    /\ loading' = TRUE
    /\ issues' = <<>>
    /\ activeFeature' = NoFeature
    /\ score' = JSNull
    /\ requests' = Append(requests, [status |-> "fetch", file |-> file, data |-> NoData])
    /\ UNCHANGED <<file, settled, notice>>

\* lines 42-46: catch and finally
catchFinallyClearing(i) ==
    /\ notice' = BackendAlert
    /\ loading' = FALSE
    /\ score' = JSNull
    /\ issues' = <<>>
    /\ requests' = [requests EXCEPT ![i].status = "failed"]
    /\ settled' = Append(settled, i)
    /\ UNCHANGED <<file, activeFeature>>

catchFinally(i) ==
    /\ notice' = BackendAlert
    /\ loading' = FALSE
    /\ requests' = [requests EXCEPT ![i].status = "failed"]
    /\ settled' = Append(settled, i)
    /\ UNCHANGED <<file, score, issues, activeFeature>>

\* lines 40-41 and 44-46: the state updates of a parsed response
storeResponseIfLatest(i, data) ==
    /\ IF i = Len(requests)
       THEN /\ score' = data.score
            /\ issues' = IF data.issues.t = "array" THEN data.issues.a ELSE <<>>
       ELSE UNCHANGED <<score, issues>>
    /\ loading' = FALSE
    /\ requests' = [requests EXCEPT ![i].status = "done", ![i].data = data]
    /\ settled' = Append(settled, i)
    /\ UNCHANGED <<file, activeFeature, notice>>

storeResponse(i, data) ==
    /\ score' = data.score
    /\ issues' = IF data.issues.t = "array" THEN data.issues.a ELSE <<>>
    /\ loading' = FALSE
    /\ requests' = [requests EXCEPT ![i].status = "done", ![i].data = data]
    /\ settled' = Append(settled, i)
    /\ UNCHANGED <<file, activeFeature, notice>>

\* line 34: the fetch promise fulfils; the function suspends at res.json()
fetchFulfilled(i) ==
    /\ requests[i].status = "fetch"
    /\ requests' = [requests EXCEPT ![i].status = "json"]
    /\ UNCHANGED <<file, score, issues, activeFeature, loading, settled, notice>>

\* line 34: the fetch promise rejects (endpoint unreachable)
fetchRejected(i) ==
    /\ requests[i].status = "fetch"
    /\ catchFinally(i)

\* line 39: res.json() rejects (the body is not JSON)
jsonRejected(i) ==
    /\ requests[i].status = "json"
    /\ catchFinally(i)

\* lines 39-41: res.json() fulfils; reading data.score of null throws
jsonFulfilled(i, data) ==
    /\ requests[i].status = "json"
    /\ IF data.kind = "null" THEN catchFinally(i) ELSE storeResponse(i, data)

\* lines 95-97
featureIssues ==
    IF activeFeature # NoFeature
    THEN getIssuesForFeature(activeFeature, issues, score)
    ELSE Returned(<<>>)

Init == AppInit /\ ClassifyIdle /\ ExplainIdle

Next ==
    \/ \E f \in Files \cup {NoFile} : setFile(f) /\ UNCHANGED <<classifyVars, explainVars>>
    \/ \E f \in Features : setActiveFeature(f) /\ UNCHANGED <<classifyVars, explainVars>>
    \/ analyzeFileNoFile /\ UNCHANGED <<classifyVars, explainVars>>
    \/ analyzeFileSubmit /\ UNCHANGED <<classifyVars, explainVars>>
    \/ \E i \in 1..Len(requests) : fetchFulfilled(i) /\ UNCHANGED <<classifyVars, explainVars>>
    \/ \E i \in 1..Len(requests) : fetchRejected(i) /\ UNCHANGED <<classifyVars, explainVars>>
    \/ \E i \in 1..Len(requests) : jsonRejected(i) /\ UNCHANGED <<classifyVars, explainVars>>
    \/ \E i \in 1..Len(requests), data \in Bodies :
          jsonFulfilled(i, data) /\ UNCHANGED <<classifyVars, explainVars>>

Spec == Init /\ [][Next]_vars

----------------------------------------------------------------------------
(* getIssuesForFeature applied to drawn arguments *)

ClassifyInit ==
    /\ AppInit /\ ExplainIdle
    /\ cFeature \in FeatureArgs
    /\ cIssues \in IssueArrays
    /\ cScore \in ScoreArgs
    /\ cResult = Returned(<<>>)
    /\ cDone = FALSE

Classify ==
    /\ ~cDone
    /\ cResult' = getIssuesForFeature(cFeature, cIssues, cScore)
    /\ cDone' = TRUE
    /\ UNCHANGED <<cFeature, cIssues, cScore, appVars, explainVars>>

SpecClassify == ClassifyInit /\ [][Classify]_vars

----------------------------------------------------------------------------
(* explainIssue applied to drawn arguments *)

ExplainInit ==
    /\ AppInit /\ ClassifyIdle
    /\ eIssue \in { JSString(s) : s \in Texts }
    /\ eResult = ""
    /\ eDone = FALSE

Explain ==
    /\ ~eDone
    /\ eResult' = explainIssue(eIssue)
    /\ eDone' = TRUE
    /\ UNCHANGED <<eIssue, appVars, classifyVars>>

SpecExplain == ExplainInit /\ [][Explain]_vars

----------------------------------------------------------------------------
(* Properties *)

\* The string elements of iss, in their order, whose lowercased text
\* contains at least one of the words.
RECURSIVE StringsContaining(_, _)
StringsContaining(iss, words) ==
    IF iss = <<>> THEN <<>>
    ELSE LET rest == StringsContaining(Tail(iss), words) IN
         IF Head(iss).t = "string"
            /\ \E w \in words : includes(toLowerCase(Head(iss).s), w)
         THEN <<Head(iss)>> \o rest
         ELSE rest

HasNonString(iss) == \E k \in 1..Len(iss) : iss[k].t # "string"

C4_SecurityFilter ==
    (cDone /\ cFeature = "security" /\ (cScore = JSNull \/ cScore.n > 35))
        => /\ ~cResult.threw
           /\ cResult.value = StringsContaining(cIssues, SecurityWords)
           /\ \A k \in 1..Len(cResult.value) : cResult.value[k].t = "string"

C4_Witness ==
    /\ cDone /\ cFeature = "security" /\ cScore = JSNumber(36)
    /\ Len(cIssues) = 2 /\ cIssues[1] = JSNull
    /\ cResult = Returned(<<JSString(TxtHardcodedSecret)>>)

\* C5: explainIssue returns, for every string, the explanation of the
\* first matching rule in the order eval/exec, secret/password/token,
\* complex, dependency, refactor, and the generic one when none matches.
C5_FirstMatchingRuleWins ==
    eDone =>
      LET text == toLowerCase(eIssue.s)
          r1 == includes(text, KwEval) \/ includes(text, KwExec)
          r2 == \/ includes(text, KwSecret)
                \/ includes(text, KwPassword)
                \/ includes(text, KwToken)
          r3 == includes(text, KwComplex)
          r4 == includes(text, KwDependency)
          r5 == includes(text, KwRefactor)
      IN /\ r1 => eResult = ExplainExec
         /\ (~r1 /\ r2) => eResult = ExplainSecret
         /\ (~r1 /\ ~r2 /\ r3) => eResult = ExplainComplex
         /\ (~r1 /\ ~r2 /\ ~r3 /\ r4) => eResult = ExplainDependency
         /\ (~r1 /\ ~r2 /\ ~r3 /\ ~r4 /\ r5) => eResult = ExplainRefactor
         /\ (~r1 /\ ~r2 /\ ~r3 /\ ~r4 /\ ~r5) => eResult = ExplainGeneric

C5_Witness ==
    /\ eDone
    /\ includes(toLowerCase(eIssue.s), KwPassword)
    /\ includes(toLowerCase(eIssue.s), KwEval)
    /\ eResult = ExplainExec

\* C6: every analyzeFile call that issues a request leaves score null,
\* issues empty and the active lens unset at the moment of the request.
C6_ClearedAtSubmission ==
    [][Len(requests') > Len(requests)
         => score' = JSNull /\ issues' = <<>> /\ activeFeature' = NoFeature]_vars

C6_Witness ==
    /\ Len(requests) = 2
    /\ requests[1].status = "done" /\ requests[1].data.score.t = "number"
    /\ settled = <<1>>
    /\ requests[2].status = "fetch"
    /\ score = JSNull /\ issues = <<>> /\ activeFeature = NoFeature

\* C7: handling a failed request (fetch rejected, body not JSON) leaves
\* score, issues and the active lens as they were, sets loading to false
\* and notifies the user.
C7_FailureKeepsResults ==
    [][\A i \in 1..Len(requests) :
          (requests[i].status \in {"fetch", "json"} /\ requests'[i].status = "failed")
             => /\ score' = score /\ issues' = issues
                /\ activeFeature' = activeFeature /\ file' = file
                /\ loading' = FALSE
                /\ notice' = BackendAlert]_vars

C7_Witness ==
    /\ settled # <<>>
    /\ requests[settled[Len(settled)]].status = "failed"
    /\ score.t = "number" /\ issues # <<>>
    /\ ~loading /\ notice = BackendAlert

\* C8: the stored score is null or a number in every reachable state (a
\* response with a missing or non-numeric score leaves it null).
C8_ScoreNullOrNumber == score.t \in {"null", "number"}

\* C9: when two or more analyses have all succeeded, the stored score and
\* issues are those of the response that arrived last, whatever the order
\* of submission.
C9_LastArrivalWins ==
    (/\ Len(requests) >= 2
     /\ \A i \in 1..Len(requests) : requests[i].status = "done")
        => LET data == requests[settled[Len(settled)]].data IN
           /\ score = data.score
           /\ issues = IF data.issues.t = "array" THEN data.issues.a ELSE <<>>

C9_Witness ==
    /\ Len(requests) = 2
    /\ requests[1].status = "done" /\ requests[2].status = "done"
    /\ settled = <<2, 1>>
    /\ requests[1].data # requests[2].data
    /\ score = requests[1].data.score /\ score = JSNumber(20)

\* C10: loading is true whenever at least one request is in flight.
C10_LoadingWhileInFlight == InFlight # {} => loading

====
